---- MODULE Spec2Model ----
(***************************************************************************)
(* Edit session of the document page: DocumentPage (the supabase-backed    *)
(* page, src/unnamed/part_001) owning the in-memory document and           *)
(* updateDocument, and DocumentEditor (src/components/document-editor.tsx) *)
(* owning the local title/content, the debounced saveDocument, the         *)
(* autosave effect and the collaborator roster.                            *)
(* SpecApp covers what surrounds the session: AuthProvider.login           *)
(* (src/unnamed/part_004), the Dashboard (src/components/dashboard.tsx)    *)
(* and the load of DocumentPage.                                           *)
(*                                                                         *)
(* One action is one event of the single-threaded event loop: the handler, *)
(* the re-render it causes and the effects of that render.                 *)
(***************************************************************************)
EXTENDS Integers, Sequences, FiniteSets, TLC

\* ---------------------------------------------------------------- bounds
\* granularity of the clock, in ms
TickMs == 1000
\* the clock stops after MaxTicks ticks
MaxTicks == 6
\* the clock of the roster specification stops after MaxRosterTicks ticks
MaxRosterTicks == 2
\* handleInviteCollaborator calls that may be awaiting their delay at once
MaxPendingInvites == 1
\* roster entries beyond which no further invite is started
MaxRoster == 5
\* Dashboard and DocumentPage requests that may be started while others are outstanding
MaxCalls == 2

\* ------------------------------------------------------- program constants
\* debounce(..., 3000)
QuietPeriod == 3000
\* await new Promise((resolve) => setTimeout(resolve, 1000))
InviteDelay == 1000

\* ------------------------------------------------------------ input values
Titles == {"Untitle Document", "Q3 Plan"}
Contents == {"", "<p>Draft</p>"}
Emails == {"a@b.com"}
SessionUserId == "u1"
NoUser == "none"
NoTimer == [due |-> -1]
InviteRoles == {"editor", "viewer"}
\* ids a row of the documents table may have
DocIds == {"d1", "d2"}
\* ids of the rows of users_data: register inserts one under the id of the
\* auth user it has just created
UsersData == {"u1"}
\* ids of the auth users signInWithPassword can authenticate
AuthIds == {"u1", "u2"}
\* useState<Document | null>(null)
NoDocument == [id |-> "none"]

VARIABLES
  now,            \* wall clock, ms since the editor was opened
  user,           \* AuthProvider: id of the session user, or NoUser
  route,          \* "doc": page shown; "leaving": router.push("/") issued; "home": page unmounted
  document,       \* DocumentPage: useState document
  title,          \* DocumentEditor: useState title
  content,        \* DocumentEditor: useState content
  isSaving,       \* DocumentEditor: useState isSaving
  lastSaved,      \* DocumentEditor: useState lastSaved
  timeout,        \* pending timer of the debounced saveDocument of the current render
  orphans,        \* pending timers of debounced saveDocuments of earlier renders, oldest first
  inflight,       \* update requests sent and not yet answered
  db,             \* the row of the document in the documents table
  toasts,         \* number of "Error updating document" notifications shown
  collaborators,  \* DocumentEditor: useState collaborators
  inviteEmail,    \* DocumentEditor: useState inviteEmail
  inviteRole,     \* DocumentEditor: useState inviteRole
  isInviting,     \* DocumentEditor: useState isInviting
  invites,        \* handleInviteCollaborator calls awaiting their delay
  last,           \* observation: the event that led to this state
  flushes,        \* observation: number of onUpdate calls so far
  lastEditAt,     \* observation: time of the last accepted edit, -1 if none
  burstFlushes,   \* observation: onUpdate calls since the first edit of the current burst
  flushed,        \* observation: the arguments of the last onUpdate call
  rows,           \* ids of the rows of the documents table
  documents,      \* Dashboard: useState documents, as the set of their ids
  calls,          \* Dashboard and DocumentPage requests sent and not yet answered
  loading,        \* DocumentPage: useState loading
  params          \* DocumentPage: useParams().id, "none" when no page is open

vars == <<now, user, route, document, title, content, isSaving, lastSaved,
          timeout, orphans, inflight, db, toasts, collaborators, inviteEmail,
          inviteRole, isInviting, invites, last, flushes, lastEditAt,
          burstFlushes, flushed, rows, documents, calls, loading, params>>

pageVars == <<user, route, document, title, content, isSaving, lastSaved,
              timeout, orphans, inflight, db, toasts>>
rosterVars == <<collaborators, inviteEmail, inviteRole, isInviting, invites>>
obsVars == <<flushes, lastEditAt, burstFlushes, flushed>>
appVars == <<rows, documents, calls, loading, params>>

\* the row the page loaded
InitialDocument ==
  [id |-> "d1", title |-> "Untitle Document", content |-> "", updatedAt |-> 0]

\* useState<Collaborator[]>([...]) of DocumentEditor
InitialCollaborators ==
  << [id |-> SessionUserId, email |-> "you@example.com", role |-> "owner", isOnline |-> TRUE],
     [id |-> "2", email |-> "sarah@company.com", role |-> "editor", isOnline |-> TRUE],
     [id |-> "3", email |-> "mike@company.com", role |-> "editor", isOnline |-> FALSE],
     [id |-> "4", email |-> "emily@company.com", role |-> "viewer", isOnline |-> TRUE] >>

NoEvent == [op |-> "init"]

\* ---------------------------------------------------------------- helpers
RemoveAt(s, i) == SubSeq(s, 1, i - 1) \o SubSeq(s, i + 1, Len(s))

RECURSIVE Find(_, _, _)
\* Array.prototype.find on the id: index of the first entry with that id, 0 if none
Find(s, id, i) ==
  IF i > Len(s) THEN 0
  ELSE IF s[i].id = id THEN i
  ELSE Find(s, id, i + 1)

\* const currentUserRole = collaborators.find((c) => c.id === user?.id)?.role || "viewer"
currentUserRoleOf(roster, u) ==
  IF u = NoUser THEN "viewer"
  ELSE IF Find(roster, u, 1) = 0 THEN "viewer"
  ELSE roster[Find(roster, u, 1)].role

currentUserRole == currentUserRoleOf(collaborators, user)

\* title !== document.title || content !== document.content
Dirty(t, c, doc) == t # doc.title \/ c # doc.content

\* the debounced function: clearTimeout(timeout); timeout = setTimeout(func(args), wait)
debounce(t, c, doc) ==
  [due |-> now + QuietPeriod, title |-> t, content |-> c, doc |-> doc]

\* an autosave effect that calls saveDocument without comparing
autosaveEffectUnconditional(t, c, doc, pending) == debounce(t, c, doc)

\* the autosave effect, run after a render whose dependencies changed:
\* pending is the timer of the debounced saveDocument of that render
autosaveEffect(t, c, doc, pending) ==
  IF Dirty(t, c, doc) THEN debounce(t, c, doc) ELSE pending

\* timers that a new render leaves behind: the old debounced function is
\* dropped by useCallback, its timer is never cleared
Orphaned(os, pending) == IF pending = NoTimer THEN os ELSE Append(os, pending)

PendingTimers == Orphaned(orphans, timeout)

Init ==
  /\ now = 0
  /\ user = SessionUserId
  /\ route = "doc"
  /\ document = InitialDocument
  /\ title = InitialDocument.title
  /\ content = InitialDocument.content
  /\ isSaving = FALSE
  /\ lastSaved = InitialDocument.updatedAt
  /\ timeout = NoTimer
  /\ orphans = <<>>
  /\ inflight = <<>>
  /\ db = InitialDocument
  /\ toasts = 0
  /\ collaborators = InitialCollaborators
  /\ inviteEmail = ""
  /\ inviteRole = "editor"
  /\ isInviting = FALSE
  /\ invites = <<>>
  /\ last = NoEvent
  /\ flushes = 0
  /\ lastEditAt = -1
  /\ burstFlushes = 0
  /\ flushed = [title |-> InitialDocument.title, content |-> InitialDocument.content]
  /\ rows = {InitialDocument.id}
  /\ documents = {}
  /\ calls = <<>>
  /\ loading = FALSE
  /\ params = InitialDocument.id

\* ------------------------------------------------------------------ clock
\* a timer or a delay that is due runs before time passes
Tick ==
  /\ now < MaxTicks * TickMs
  /\ \A i \in DOMAIN PendingTimers : PendingTimers[i].due > now
  /\ \A i \in DOMAIN invites : invites[i].due > now
  /\ now' = now + TickMs
  /\ last' = [op |-> "tick"]
  /\ UNCHANGED <<pageVars, rosterVars, obsVars>>
  /\ UNCHANGED appVars

\* ------------------------------------------------------------ DocumentEditor
Mounted == route # "home"

\* an edit within QuietPeriod of the previous one continues its burst
EditObserved ==
  /\ lastEditAt' = now
  /\ burstFlushes' =
       IF lastEditAt >= 0 /\ now - lastEditAt < QuietPeriod THEN burstFlushes ELSE 0
  /\ UNCHANGED <<flushes, flushed>>

\* re-render of DocumentEditor after setTitle/setContent: onUpdate is the
\* same, so saveDocument is the same debounced function
EditorRerender(t, c) ==
  /\ timeout' = autosaveEffect(t, c, document, timeout)
  /\ UNCHANGED orphans

\* the title Input without its disabled attribute
EditTitleUngated(v) ==
  /\ Mounted
  /\ v # title
  /\ title' = v
  /\ EditorRerender(v, content)
  /\ EditObserved
  /\ last' = [op |-> "editTitle", accepted |-> TRUE,
                actingRole |-> currentUserRole]
  /\ UNCHANGED <<now, user, route, document, content, isSaving, lastSaved,
                 inflight, db, toasts, rosterVars>>
  /\ UNCHANGED appVars

\* <Input value={title} onChange={(e) => setTitle(e.target.value)}
\*        disabled={currentUserRole === "viewer"} />
EditTitle(v) ==
  /\ Mounted
  /\ v # title
  /\ IF currentUserRole # "viewer"
     THEN /\ title' = v
          /\ EditorRerender(v, content)
          /\ EditObserved
          /\ last' = [op |-> "editTitle", accepted |-> TRUE,
                        actingRole |-> currentUserRole]
     ELSE /\ UNCHANGED <<title, timeout, orphans, obsVars>>
          /\ last' = [op |-> "editTitle", accepted |-> FALSE,
                        actingRole |-> currentUserRole]
  /\ UNCHANGED <<now, user, route, document, content, isSaving, lastSaved,
                 inflight, db, toasts, rosterVars>>
  /\ UNCHANGED appVars

\* a RichTextEditor that is read-only for everyone but the owner
EditContentOwnerOnly(v) ==
  /\ Mounted
  /\ v # content
  /\ IF currentUserRole = "owner"
     THEN /\ content' = v
          /\ EditorRerender(title, v)
          /\ EditObserved
          /\ last' = [op |-> "editContent", accepted |-> TRUE,
                        actingRole |-> currentUserRole]
     ELSE /\ UNCHANGED <<content, timeout, orphans, obsVars>>
          /\ last' = [op |-> "editContent", accepted |-> FALSE,
                        actingRole |-> currentUserRole]
  /\ UNCHANGED <<now, user, route, document, title, isSaving, lastSaved,
                 inflight, db, toasts, rosterVars>>
  /\ UNCHANGED appVars

\* RichTextEditor handleUpdate: if (!readOnly) onChange(editor.getHTML()),
\* onChange = handleContentChange = setContent;
\* readOnly={currentUserRole === "viewer"}
EditContent(v) ==
  /\ Mounted
  /\ v # content
  /\ IF currentUserRole # "viewer"
     THEN /\ content' = v
          /\ EditorRerender(title, v)
          /\ EditObserved
          /\ last' = [op |-> "editContent", accepted |-> TRUE,
                        actingRole |-> currentUserRole]
     ELSE /\ UNCHANGED <<content, timeout, orphans, obsVars>>
          /\ last' = [op |-> "editContent", accepted |-> FALSE,
                        actingRole |-> currentUserRole]
  /\ UNCHANGED <<now, user, route, document, title, isSaving, lastSaved,
                 inflight, db, toasts, rosterVars>>
  /\ UNCHANGED appVars

\* const updatedDoc = { ...document, ...updates, updatedAt: new Date() }
updatedDoc(doc, t, c) ==
  [doc EXCEPT !.title = t, !.content = c, !.updatedAt = now]

\* expiry of a debounce timer: the async function given to debounce, then
\* updateDocument up to its await, then the renders and effects that follow.
\* rest: the other pending timers, split as <<orphans, timeout>>
Flush(timer, restOrphans, restTimeout) ==
  /\ timer.due <= now
  /\ inflight' = Append(inflight,
                    [doc |-> updatedDoc(timer.doc, timer.title, timer.content),
                     seq |-> flushes + 1,
                     alone |-> inflight = <<>>,
                     savedBefore |-> lastSaved])
  /\ flushes' = flushes + 1
  /\ burstFlushes' = burstFlushes + 1
  /\ flushed' = [title |-> timer.title, content |-> timer.content]
  /\ last' = [op |-> "flush", title |-> timer.title, content |-> timer.content,
                edTitle |-> title, edContent |-> content]
  /\ IF Mounted
     THEN \* setDocument(updatedDoc); setLastSaved(new Date()); setIsSaving(false);
          \* DocumentPage re-renders with a new updateDocument, DocumentEditor
          \* with a new debounced saveDocument, and the autosave effect runs
          /\ document' = updatedDoc(timer.doc, timer.title, timer.content)
          /\ lastSaved' = now
          /\ isSaving' = FALSE
          /\ orphans' = Orphaned(restOrphans, restTimeout)
          /\ timeout' = autosaveEffect(title, content, document', NoTimer)
     ELSE \* the components are gone: the state setters do nothing
          /\ orphans' = restOrphans
          /\ timeout' = restTimeout
          /\ UNCHANGED <<document, lastSaved, isSaving>>
  /\ UNCHANGED <<now, user, route, title, content, db, toasts, rosterVars, lastEditAt>>
  /\ UNCHANGED appVars

\* timers of equal wait expire in the order they were set: the timers of
\* earlier renders are older than the timer of the current one
FlushOrphan ==
  /\ orphans # <<>>
  /\ Flush(Head(orphans), Tail(orphans), timeout)

FlushCurrent ==
  /\ orphans = <<>>
  /\ timeout # NoTimer
  /\ Flush(timeout, <<>>, NoTimer)

\* ------------------------------------------------------------- persistence
\* an updateDocument that shows its notification whatever the answer
RespondToastAlways(i, ok) ==
  /\ i \in DOMAIN inflight
  /\ inflight' = RemoveAt(inflight, i)
  /\ IF ok
     THEN \* if (data) console.log(...)
          /\ db' = inflight[i].doc
          /\ toasts' = toasts + 1
     ELSE \* if (error) toast({ title: "Error updating document", ... })
          /\ toasts' = toasts + 1
          /\ UNCHANGED db
  /\ last' = [op |-> "respond", ok |-> ok, seq |-> inflight[i].seq,
                alone |-> inflight[i].alone,
                savedBefore |-> inflight[i].savedBefore,
                at |-> inflight[i].doc.updatedAt]
  /\ UNCHANGED <<now, user, route, document, title, content, isSaving, lastSaved,
                 timeout, orphans, rosterVars, obsVars>>
  /\ UNCHANGED appVars

\* the update request of updateDocument is answered; requests are answered
\* in any order
Respond(i, ok) ==
  /\ i \in DOMAIN inflight
  /\ inflight' = RemoveAt(inflight, i)
  /\ IF ok
     THEN \* if (data) console.log(...)
          /\ db' = inflight[i].doc
          /\ UNCHANGED toasts
     ELSE \* if (error) toast({ title: "Error updating document", ... })
          /\ toasts' = toasts + 1
          /\ UNCHANGED db
  /\ last' = [op |-> "respond", ok |-> ok, seq |-> inflight[i].seq,
                alone |-> inflight[i].alone,
                savedBefore |-> inflight[i].savedBefore,
                at |-> inflight[i].doc.updatedAt]
  /\ UNCHANGED <<now, user, route, document, title, content, isSaving, lastSaved,
                 timeout, orphans, rosterVars, obsVars>>
  /\ UNCHANGED appVars

\* ------------------------------------------------------- session, navigation
\* AuthProvider.logout: setUser(null). DocumentPage and DocumentEditor
\* re-render (useAuth); the page effect pushes "/", the editor gets a new
\* onUpdate, hence a new debounced saveDocument, and its effect runs
Logout ==
  /\ Mounted
  /\ user # NoUser
  /\ user' = NoUser
  /\ route' = "leaving"
  /\ orphans' = Orphaned(orphans, timeout)
  /\ timeout' = autosaveEffect(title, content, document, NoTimer)
  /\ last' = [op |-> "logout"]
  /\ UNCHANGED <<now, document, title, content, isSaving, lastSaved, inflight,
                 db, toasts, rosterVars, obsVars>>
  /\ UNCHANGED appVars

\* the Back button: onClick={() => router.push("/")}
NavigateBack ==
  /\ route = "doc"
  /\ route' = "leaving"
  /\ last' = [op |-> "back"]
  /\ UNCHANGED <<now, user, document, title, content, isSaving, lastSaved,
                 timeout, orphans, inflight, db, toasts, rosterVars, obsVars>>
  /\ UNCHANGED appVars

\* the navigation completes: DocumentPage and DocumentEditor unmount; no
\* effect of theirs has a cleanup, pending timers stay
Teardown ==
  /\ route = "leaving"
  /\ route' = "home"
  /\ last' = [op |-> "teardown"]
  /\ UNCHANGED <<now, user, document, title, content, isSaving, lastSaved,
                 timeout, orphans, inflight, db, toasts, rosterVars, obsVars>>
  /\ UNCHANGED appVars

\* ------------------------------------------------------ collaborator roster
\* id: Date.now().toString()
DateNowString == ToString(now)

\* ids a roster handler may be called with: every id of the roster and one
\* that is not in it
TargetIds == {collaborators[i].id : i \in DOMAIN collaborators} \cup {"nobody"}

\* the role Select and the remove Button are rendered for an entry iff
\* collaborator.role !== "owner" && currentUserRole === "owner"
ControlsRendered(id) ==
  \E i \in DOMAIN collaborators :
    /\ collaborators[i].id = id
    /\ collaborators[i].role # "owner"
    /\ currentUserRole = "owner"

\* role of the first entry with that id, "none" if there is none
RoleOf(roster, id) ==
  IF Find(roster, id, 1) = 0 THEN "none" ELSE roster[Find(roster, id, 1)].role

\* Array.prototype.filter((c) => c.id !== collaboratorId)
FilterOut(roster, id) ==
  LET keep(c) == c.id # id IN SelectSeq(roster, keep)

\* Array.prototype.map((c) => (c.id === collaboratorId ? { ...c, role: newRole } : c))
MapRole(roster, id, newRole) ==
  [i \in DOMAIN roster |->
     IF roster[i].id = id THEN [roster[i] EXCEPT !.role = newRole] ELSE roster[i]]

\* onChange={(e) => setInviteEmail(e.target.value)}
SetInviteEmail(e) ==
  /\ Mounted
  /\ e # inviteEmail
  /\ inviteEmail' = e
  /\ last' = [op |-> "setInviteEmail"]
  /\ UNCHANGED <<now, pageVars, collaborators, inviteRole, isInviting, invites, obsVars>>
  /\ UNCHANGED appVars

\* onValueChange={(value: "editor" | "viewer") => setInviteRole(value)}
SetInviteRole(r) ==
  /\ Mounted
  /\ r # inviteRole
  /\ inviteRole' = r
  /\ last' = [op |-> "setInviteRole"]
  /\ UNCHANGED <<now, pageVars, collaborators, inviteEmail, isInviting, invites, obsVars>>
  /\ UNCHANGED appVars

\* handleInviteCollaborator up to its await
InviteStart ==
  /\ Mounted
  /\ inviteEmail # ""
  /\ Len(invites) < MaxPendingInvites
  /\ Len(collaborators) + Len(invites) < MaxRoster
  /\ isInviting' = TRUE
  /\ invites' = Append(invites, [due |-> now + InviteDelay, email |-> inviteEmail,
                                  role |-> inviteRole])
  /\ last' = [op |-> "inviteStart", actingRole |-> currentUserRole,
                offered |-> currentUserRole # "viewer" /\ ~isInviting]
  /\ UNCHANGED <<now, pageVars, collaborators, inviteEmail, inviteRole, obsVars>>
  /\ UNCHANGED appVars

\* a slip that builds the new entry from the owner entry's literal
newCollaboratorLikeOwner(email, role) ==
  [id |-> DateNowString, email |-> email, role |-> "owner", isOnline |-> TRUE]

\* const newCollaborator: Collaborator = { id: Date.now().toString(), ...,
\*   email: inviteEmail, role: inviteRole, isOnline: false }
newCollaborator(email, role) ==
  [id |-> DateNowString, email |-> email, role |-> role, isOnline |-> FALSE]

\* handleInviteCollaborator after its await
InviteFinish ==
  /\ invites # <<>>
  /\ Head(invites).due <= now
  /\ invites' = Tail(invites)
  /\ IF Mounted
     THEN /\ collaborators' =
               Append(collaborators,
                      newCollaborator(Head(invites).email, Head(invites).role))
          /\ inviteEmail' = ""
          /\ isInviting' = FALSE
     ELSE UNCHANGED <<collaborators, inviteEmail, isInviting>>
  /\ last' = [op |-> "inviteFinish", actingRole |-> currentUserRole,
                unchanged |-> collaborators' = collaborators]
  /\ UNCHANGED <<now, pageVars, inviteRole, obsVars>>
  /\ UNCHANGED appVars

removeCollaborator(collaboratorId) ==
  /\ Mounted
  /\ collaborators' = FilterOut(collaborators, collaboratorId)
  /\ last' = [op |-> "remove", target |-> collaboratorId,
                actingRole |-> currentUserRole,
                offered |-> ControlsRendered(collaboratorId),
                targetRole |-> RoleOf(collaborators, collaboratorId),
                unchanged |-> collaborators' = collaborators]
  /\ UNCHANGED <<now, pageVars, inviteEmail, inviteRole, isInviting, invites, obsVars>>
  /\ UNCHANGED appVars

updateCollaboratorRole(collaboratorId, newRole) ==
  /\ Mounted
  /\ collaborators' = MapRole(collaborators, collaboratorId, newRole)
  /\ last' = [op |-> "changeRole", target |-> collaboratorId, role |-> newRole,
                actingRole |-> currentUserRole,
                offered |-> ControlsRendered(collaboratorId),
                targetRole |-> RoleOf(collaborators, collaboratorId),
                unchanged |-> collaborators' = collaborators]
  /\ UNCHANGED <<now, pageVars, inviteEmail, inviteRole, isInviting, invites, obsVars>>
  /\ UNCHANGED appVars

\* ------------------------------------------- login, dashboard, page load
editorVars == <<now, title, content, isSaving, lastSaved, timeout, orphans,
                inflight, db, toasts, rosterVars, obsVars>>

\* what a handler of the dashboard, the page or the AuthProvider did
Outcome(op, ok, id) ==
  [op |-> op, ok |-> ok, id |-> id, noRow |-> FALSE, errorToast |-> FALSE,
   successToast |-> FALSE, threw |-> FALSE, navigated |-> FALSE]

\* fetchDocs up to its await
fetchDocsCall == [op |-> "fetchDocs", id |-> "none"]

\* Dashboard mounts: useState<Document[]>([]), useEffect(() => { fetchDocs() }, [])
DashboardMount(pending) ==
  /\ route' = "home"
  /\ documents' = {}
  /\ calls' = Append(pending, fetchDocsCall)

\* DocumentPage mounts on /doc/<id>: document null, loading true; the load
\* effect starts fetchCurrentDocument(docId) and calls setLoading(false)
\* without awaiting it
PageMount(id, pending) ==
  /\ route' = IF user = NoUser THEN "leaving" ELSE "doc"
  /\ params' = id
  /\ document' = NoDocument
  /\ IF user = NoUser
     THEN \* if (!user) { router.push("/"); return }
          /\ loading' = TRUE
          /\ calls' = pending
     ELSE /\ loading' = FALSE
          /\ calls' = Append(pending, [op |-> "load", id |-> id])

\* what DocumentPage renders
PageView ==
  IF loading THEN "spinner"
  ELSE IF document = NoDocument THEN "notFound"
  ELSE "editor"

\* a users_data lookup that returns the rows whatever the id
usersDataAny(userId) == UsersData

\* supabase.from("users_data").select("*").eq("id", userId)
usersData(userId) == {r \in UsersData : r = userId}

\* AuthProvider.login called by LoginPage.onSubmit; authError: the sign-in
\* reported an error, authData.user is null and userId is undefined
login(authId, authError) ==
  /\ route = "login"
  /\ LET userId == IF authError THEN "undefined" ELSE authId
         dataRes == usersData(userId)
     IN IF dataRes = {}
        THEN \* res is undefined: reading res.id throws, the catch rethrows;
             \* onSubmit shows "Login failed"
             /\ last' = [Outcome("login", FALSE, authId) EXCEPT
                           !.noRow = TRUE, !.threw = TRUE, !.errorToast = TRUE]
             /\ UNCHANGED <<user, route, documents, calls>>
        ELSE \* setUser({id: res.id, ...}), then if (authError) throw
             /\ user' = CHOOSE r \in dataRes : TRUE
             /\ IF authError
                THEN /\ last' = [Outcome("login", FALSE, authId) EXCEPT
                                   !.threw = TRUE, !.errorToast = TRUE]
                     /\ UNCHANGED <<route, documents, calls>>
                ELSE \* onSubmit: "Welcome back!", router.push("/")
                     /\ last' = [Outcome("login", TRUE, authId) EXCEPT
                                   !.successToast = TRUE, !.navigated = TRUE]
                     /\ DashboardMount(calls)
  /\ UNCHANGED <<document, rows, loading, params, editorVars>>

\* fetchDocs after its await: if (data) setDocuments(data); if (error) toast
fetchDocsAnswer(i, ok) ==
  /\ i \in DOMAIN calls
  /\ calls[i].op = "fetchDocs"
  /\ calls' = RemoveAt(calls, i)
  /\ documents' = IF ok /\ route = "home" THEN rows ELSE documents
  /\ last' = [Outcome("fetchDocsAnswer", ok, "none") EXCEPT !.errorToast = ~ok]
  /\ UNCHANGED <<user, route, document, rows, loading, params, editorVars>>

\* Dashboard.deleteDocument(docId) up to its await
deleteStart(id) ==
  /\ route = "home"
  /\ Len(calls) < MaxCalls
  /\ calls' = Append(calls, [op |-> "delete", id |-> id])
  /\ last' = Outcome("deleteStart", TRUE, id)
  /\ UNCHANGED <<user, route, document, rows, documents, loading, params, editorVars>>

\* Dashboard.deleteDocument after its await: if (error) toast(error);
\* toast("Document deleted")
deleteAnswer(i, ok) ==
  /\ i \in DOMAIN calls
  /\ calls[i].op = "delete"
  /\ calls' = RemoveAt(calls, i)
  /\ rows' = IF ok THEN rows \ {calls[i].id} ELSE rows
  /\ last' = [Outcome("deleteAnswer", ok, calls[i].id) EXCEPT
                !.errorToast = ~ok, !.successToast = TRUE]
  /\ UNCHANGED <<user, route, document, documents, loading, params, editorVars>>

\* Dashboard.createDocument up to its await
createStart ==
  /\ route = "home"
  /\ Len(calls) < MaxCalls
  /\ calls' = Append(calls, [op |-> "create", id |-> "none"])
  /\ last' = Outcome("createStart", TRUE, "none")
  /\ UNCHANGED <<user, route, document, rows, documents, loading, params, editorVars>>

\* Dashboard.createDocument after its await, the insert succeeded with row
\* id: fetchDocs(), toast("Document created"), router.push(`/doc/${data.id}`)
createSucceeds(i, id) ==
  /\ i \in DOMAIN calls
  /\ calls[i].op = "create"
  /\ id \notin rows
  /\ rows' = rows \cup {id}
  /\ last' = [Outcome("createAnswer", TRUE, id) EXCEPT
                !.successToast = TRUE, !.navigated = TRUE]
  /\ PageMount(id, Append(RemoveAt(calls, i), fetchDocsCall))
  /\ UNCHANGED <<user, documents, editorVars>>

\* Dashboard.createDocument after its await, the insert failed: fetchDocs(),
\* toast("Error Ocurred"), then data is null and reading data.id throws
createFails(i) ==
  /\ i \in DOMAIN calls
  /\ calls[i].op = "create"
  /\ calls' = Append(RemoveAt(calls, i), fetchDocsCall)
  /\ last' = [Outcome("createAnswer", FALSE, "none") EXCEPT
                !.errorToast = TRUE, !.threw = TRUE]
  /\ UNCHANGED <<user, route, document, rows, documents, loading, params, editorVars>>

\* a document of the dashboard is opened: router.push(`/doc/${doc.id}`), or
\* the address of a document is entered
OpenDocument(id) ==
  /\ route = "home"
  /\ Len(calls) < MaxCalls
  /\ PageMount(id, calls)
  /\ last' = [Outcome("open", TRUE, id) EXCEPT !.navigated = TRUE]
  /\ UNCHANGED <<user, rows, documents, editorVars>>

\* fetchCurrentDocument after its await: if (data) setDocument(data);
\* if (error) { console.error(...); return null }
loadAnswer(i, ok) ==
  /\ i \in DOMAIN calls
  /\ calls[i].op = "load"
  /\ calls' = RemoveAt(calls, i)
  /\ LET found == ok /\ calls[i].id \in rows
     IN /\ document' =
             IF found /\ route = "doc" /\ params = calls[i].id
             THEN [InitialDocument EXCEPT !.id = calls[i].id]
             ELSE document
        /\ last' = [Outcome("loadAnswer", found, calls[i].id) EXCEPT
                      !.noRow = ok /\ ~found]
  /\ UNCHANGED <<user, route, rows, documents, loading, params, editorVars>>

\* back to "/" from the page (the Back button of the editor, or the browser)
OpenDashboard ==
  /\ route = "doc"
  /\ Len(calls) < MaxCalls
  /\ DashboardMount(calls)
  /\ params' = "none"
  /\ document' = NoDocument
  /\ loading' = TRUE
  /\ last' = [Outcome("dashboard", TRUE, "none") EXCEPT !.navigated = TRUE]
  /\ UNCHANGED <<user, rows, editorVars>>

\* ---------------------------------------------------------- specifications
\* the autosave path of the open document
Next ==
  \/ Tick
  \/ \E v \in Titles : EditTitle(v)
  \/ \E v \in Contents : EditContent(v)
  \/ FlushOrphan
  \/ FlushCurrent
  \/ \E i \in 1..(MaxTicks + 1), ok \in BOOLEAN : Respond(i, ok)
  \/ Logout
  \/ NavigateBack
  \/ Teardown

Spec == Init /\ [][Next]_vars

\* the roster of the open document
TickRoster ==
  /\ now < MaxRosterTicks * TickMs
  /\ Tick

NextRoster ==
  \/ TickRoster
  \/ \E e \in Emails \cup {""} : SetInviteEmail(e)
  \/ \E r \in InviteRoles : SetInviteRole(r)
  \/ InviteStart
  \/ InviteFinish
  \/ \E id \in TargetIds : removeCollaborator(id)
  \/ \E id \in TargetIds, r \in InviteRoles : updateCollaboratorRole(id, r)

SpecRoster == Init /\ [][NextRoster]_vars

\* the role gate: the session user's role changes (logout, roster calls) while
\* edits and roster calls are attempted
NextGate ==
  \/ \E v \in Titles : EditTitle(v)
  \/ \E v \in Contents : EditContent(v)
  \/ \E id \in TargetIds : removeCollaborator(id)
  \/ \E id \in TargetIds, r \in InviteRoles : updateCollaboratorRole(id, r)
  \/ Logout

SpecGate == Init /\ [][NextGate]_vars

\* login, the dashboard and the load of a document page; the session starts
\* signed out on the login page
InitApp ==
  /\ now = 0
  /\ user = NoUser
  /\ route = "login"
  /\ document = NoDocument
  /\ title = InitialDocument.title
  /\ content = InitialDocument.content
  /\ isSaving = FALSE
  /\ lastSaved = InitialDocument.updatedAt
  /\ timeout = NoTimer
  /\ orphans = <<>>
  /\ inflight = <<>>
  /\ db = InitialDocument
  /\ toasts = 0
  /\ collaborators = InitialCollaborators
  /\ inviteEmail = ""
  /\ inviteRole = "editor"
  /\ isInviting = FALSE
  /\ invites = <<>>
  /\ last = NoEvent
  /\ flushes = 0
  /\ lastEditAt = -1
  /\ burstFlushes = 0
  /\ flushed = [title |-> InitialDocument.title, content |-> InitialDocument.content]
  /\ rows \in SUBSET DocIds
  /\ documents = {}
  /\ calls = <<>>
  /\ loading = TRUE
  /\ params = "none"

NextApp ==
  \/ \E a \in AuthIds, e \in BOOLEAN : login(a, e)
  \/ \E i \in DOMAIN calls, ok \in BOOLEAN : fetchDocsAnswer(i, ok)
  \/ \E id \in DocIds : deleteStart(id)
  \/ \E i \in DOMAIN calls, ok \in BOOLEAN : deleteAnswer(i, ok)
  \/ createStart
  \/ \E i \in DOMAIN calls, id \in DocIds : createSucceeds(i, id)
  \/ \E i \in DOMAIN calls : createFails(i)
  \/ \E id \in DocIds : OpenDocument(id)
  \/ \E i \in DOMAIN calls, ok \in BOOLEAN : loadAnswer(i, ok)
  \/ OpenDashboard

SpecApp == InitApp /\ [][NextApp]_vars

\* ------------------------------------------------------------------ claims
\* the editor's title or content differs from the in-memory document
IsDirty == Dirty(title, content, document)

\* C1: once the quiet period after the last edit of a burst of edits (each
\* within QuietPeriod of the previous one) has passed, exactly one flush has
\* fired since the burst began, and it carried the title and the content as
\* they stood after the last edit.
C1_BurstFlushedOnceWithLastValues ==
  (lastEditAt >= 0 /\ now - lastEditAt > QuietPeriod)
    => /\ burstFlushes = 1
       /\ flushed = [title |-> title, content |-> content]

\* C2: right after the update request of a flush has returned an error, the
\* editor's title/content still count as different from the document (Dirty).
C2_FailedSaveStaysDirty ==
  (Mounted /\ last.op = "respond" /\ ~last.ok) => IsDirty

\* C3: when the update request of a flush returns an error (and no other
\* flush overlapped it), lastSaved is what it was before that flush.
C3_FailedSaveKeepsLastSaved ==
  (last.op = "respond" /\ ~last.ok /\ last.alone /\ last.seq = flushes)
    => lastSaved = last.savedBefore

\* C4: at most one update request is in flight at any time.
C4_SingleRequestInFlight == Len(inflight) <= 1

\* C5: with the editor open, once no timer is pending and every request has
\* been answered successfully, the persisted title and content are the
\* editor's title and content.
C5_NoLostUpdate ==
  (Mounted /\ PendingTimers = <<>> /\ inflight = <<>> /\ toasts = 0)
    => (db.title = title /\ db.content = content)

\* C6: a flush passes to onUpdate the editor's title and content of the
\* moment it runs.
C6_FlushUsesLatestValues ==
  last.op = "flush" => (last.title = last.edTitle /\ last.content = last.edContent)

\* C7: at most one debounce timer is pending at any time.
C7_SingleTimerPending == Len(PendingTimers) <= 1

\* C8: the roster has exactly one entry of role owner, and it is the initial
\* owner entry.
C8_ExactlyOneOwner ==
  /\ Cardinality({i \in DOMAIN collaborators : collaborators[i].role = "owner"}) = 1
  /\ \E i \in DOMAIN collaborators : collaborators[i] = InitialCollaborators[1]

\* C9: removeCollaborator called with the id of the owner leaves the roster
\* as it was.
C9_RemoveOwnerRefused ==
  (last.op = "remove" /\ last.targetRole = "owner") => last.unchanged

\* C10: updateCollaboratorRole called with the id of the owner leaves the
\* owner's role owner; called with the id of another entry it sets that
\* entry's role to the new role.
C10_ChangeRoleSparesOwner ==
  (last.op = "changeRole" /\ last.targetRole # "none")
    => RoleOf(collaborators, last.target) =
         (IF last.targetRole = "owner" THEN "owner" ELSE last.role)

\* ids of the entries the roster starts with
InitialIds == {InitialCollaborators[i].id : i \in DOMAIN InitialCollaborators}

\* C11: an invite cannot be requested with role owner (inviteRole and the
\* role of every invite under way are editor or viewer), and every entry an
\* invite has added has role editor or viewer and is offline.
C11_InviteNeverAddsOwner ==
  /\ inviteRole \in {"editor", "viewer"}
  /\ \A i \in DOMAIN invites : invites[i].role \in {"editor", "viewer"}
  /\ \A i \in DOMAIN collaborators :
       collaborators[i].id \notin InitialIds
         => /\ collaborators[i].role \in {"editor", "viewer"}
            /\ collaborators[i].isOnline = FALSE

\* an invite with role viewer has just added its entry
C11_Witness ==
  /\ last.op = "inviteFinish"
  /\ \E i \in DOMAIN collaborators :
       collaborators[i].id \notin InitialIds /\ collaborators[i].role = "viewer"

\* the owner entry the roster started with is still in it
OwnerEntryIntact ==
  \E i \in DOMAIN collaborators : collaborators[i] = InitialCollaborators[1]

\* C12: invite, remove and changeRole leave the roster as it was when the
\* acting user's effective role is not owner (stated for rosters whose owner
\* entry is intact, so that the acting role is not owner for another reason
\* than a call on the owner entry).
C12_RosterGatedOnOwner ==
  (/\ last.op \in {"remove", "changeRole", "inviteFinish"}
   /\ last.actingRole # "owner"
   /\ OwnerEntryIntact)
    => last.unchanged

\* C13: an edit of the title or the content attempted while the acting
\* user's effective role is viewer changes neither the editor's title and
\* content nor the in-memory document, sets no timer and sends no request.
C13_ViewerEditChangesNothing ==
  [][(currentUserRole = "viewer" /\ last'.op \in {"editTitle", "editContent"})
       => UNCHANGED <<title, content, document, timeout, orphans, inflight, db>>]_vars

\* a viewer has just attempted an edit of the title
C13_Witness ==
  /\ currentUserRole = "viewer"
  /\ last.op = "editTitle"
  /\ last.actingRole = "viewer"
  /\ ~last.accepted

\* C15: the title input and the rich-text editor accept a change exactly
\* when the acting user's effective role is owner or editor.
C15_EditableIffOwnerOrEditor ==
  last.op \in {"editTitle", "editContent"}
    => (last.accepted <=> last.actingRole \in {"owner", "editor"})

\* an editor has just changed the content
C15_Witness ==
  /\ last.op = "editContent"
  /\ last.actingRole = "editor"
  /\ last.accepted
  /\ content # InitialDocument.content

\* C14: the effective role is viewer for an acting id that is not in the
\* roster (the absent session user included) and owner for the designated
\* owner's id.
C14_EffectiveRole ==
  /\ \A u \in {NoUser, "stranger"} :
       (\A i \in DOMAIN collaborators : collaborators[i].id # u)
         => currentUserRoleOf(collaborators, u) = "viewer"
  /\ currentUserRoleOf(collaborators, SessionUserId) = "owner"

\* C16: while a persistence request sent by a flush is outstanding, the
\* editor's save status is Saving (isSaving is true).
C16_SavingWhileInFlight ==
  (Mounted /\ inflight # <<>>) => isSaving

\* C17: the in-memory document's updatedAt is rewritten only by the step
\* in which persistence confirms a save; a flush whose request is still in
\* flight or has failed leaves it at its previous value.
C17_UpdatedAtOnlyAfterConfirmation ==
  [][document'.updatedAt # document.updatedAt
       => (last'.op = "respond" /\ last'.ok)]_vars

\* C18: after a successful save the in-memory document's updatedAt equals
\* the updatedAt of the row returned by persistence.
C18_ServerUpdatedAtWins ==
  (Mounted /\ last.op = "respond" /\ last.ok)
    => document.updatedAt = db.updatedAt

\* C19: updatedAt never decreases, neither in the in-memory document nor
\* in the persisted row.
C19_UpdatedAtMonotone ==
  [][/\ document'.updatedAt >= document.updatedAt
     /\ db'.updatedAt >= db.updatedAt]_vars

\* C20: an edit after which title and content equal the in-memory document
\* schedules no flush, does not set the Saving status and sends no request:
\* the timers, the request queue, the document and the row stay as they were.
C20_EqualEditSchedulesNothing ==
  [][((title' # title \/ content' # content)
        /\ ~Dirty(title', content', document'))
       => UNCHANGED <<timeout, orphans, inflight, isSaving, document, db>>]_vars

\* the last step was an accepted edit that brought the editor back to the
\* values of the in-memory document
C20_Witness ==
  /\ Mounted
  /\ last.op \in {"editTitle", "editContent"}
  /\ last.accepted
  /\ title = document.title
  /\ content = document.content

\* C21: the step in which a flush's request fails leaves the editor's title
\* and content as they were, and as long as no edit has been made since that
\* flush was issued, the failure is not followed by another persistence call.
C21_FailedSaveKeepsBufferNoRetry ==
  [][/\ (last'.op = "respond" /\ ~last'.ok)
          => (title' = title /\ content' = content)
     /\ (last.op = "respond" /\ ~last.ok /\ lastEditAt < last.at)
          => flushes' = flushes]_vars

\* C22: the answer to a flush's request shows exactly one error
\* notification when it is an error and none when it is a success; nothing
\* else shows one.
C22_OneToastPerFailure ==
  [][toasts' = toasts + (IF last'.op = "respond" /\ ~last'.ok THEN 1 ELSE 0)]_vars

\* a request has just failed and a request has succeeded before it
C22_Witness ==
  /\ last.op = "respond"
  /\ ~last.ok
  /\ last.seq = 2
  /\ toasts = 1

\* C25: once the session user has logged out or the editor has been
\* unmounted by a navigation, no further persistence call is issued for the
\* document.
C25_NoFlushAfterSessionEnd ==
  [][(user = NoUser \/ route = "home") => flushes' = flushes]_vars

\* C23: when the load of the open page finds no row for its id, the page
\* has navigated away from /doc/<id> and does not show the editor.
C23_NotFoundRedirects ==
  (last.op = "loadAnswer" /\ last.noRow /\ params = last.id)
    => (route # "doc" /\ PageView # "editor")

\* C24: a failed save, load, list or delete request shows the user a
\* notification and its handler returns without throwing.
C24_FailureHandledAsValue ==
  /\ (last.op \in {"loadAnswer", "fetchDocsAnswer", "deleteAnswer"} /\ ~last.ok)
       => (last.errorToast /\ ~last.threw)
  /\ (last.op = "respond" /\ ~last.ok) => toasts > 0

\* C26: while the fetch of the open page is outstanding the page does not
\* show "Document not found".
C26_NotFoundOnlyAfterLoad ==
  (route = "doc" /\ PageView = "notFound")
    => ~\E i \in DOMAIN calls : calls[i].op = "load" /\ calls[i].id = params

\* C27: deleteDocument shows "Document deleted" exactly when the delete
\* request succeeded, and the error notification when it failed.
C27_DeletedToastOnlyOnSuccess ==
  last.op = "deleteAnswer"
    => /\ last.successToast <=> last.ok
       /\ ~last.ok => last.errorToast

\* C28: once deleteDocument has succeeded for an id, the dashboard's
\* documents list does not hold that id.
C28_DeletedLeavesList ==
  (last.op = "deleteAnswer" /\ last.ok /\ route = "home")
    => last.id \notin documents

\* C29: createDocument navigates to the new document exactly when the
\* insert succeeded; when it failed it shows the error notification and
\* returns without throwing.
C29_CreateNavigatesOnlyOnSuccess ==
  last.op = "createAnswer"
    => /\ last.navigated <=> last.ok
       /\ ~last.ok => (last.errorToast /\ ~last.threw)

\* C30: a login whose sign-in reported an error or whose users_data lookup
\* returned no row throws and leaves user null; the user is set, to the
\* authenticated id, only by a login that succeeded.
C30_LoginSetsUserOnlyOnSuccess ==
  /\ (last.op = "login" /\ ~last.ok) => (last.threw /\ user = NoUser)
  /\ (last.op = "login" /\ last.ok) => user = last.id

\* a login has just failed because users_data holds no row for the id
C30_Witness ==
  /\ last.op = "login"
  /\ ~last.ok
  /\ last.noRow
  /\ last.threw
  /\ user = NoUser

====
